---- MODULE Spec2Model ----
(***************************************************************************)
(* Model of the GIS glue of ValdezTech-property-solutions.                  *)
(*                                                                          *)
(*   src/unnamed/part_000   gis.js, Web-Mercator version (the claims' code) *)
(*   src/maps.js            updateLocation, the caller of runGISAnalysis    *)
(*                                                                          *)
(* Numbers.  The code computes in IEEE doubles; the model computes in       *)
(* exact fixed-point integers.  Longitudes and latitudes are grid indices   *)
(* 0..MaxLon and 0..MaxLat (one index = one grid step of the query area).   *)
(* Projected coordinates are whole decimetres.  Every area is carried       *)
(* DOUBLED (the shoelace sum before the division by 2), so that the halves  *)
(* the code produces stay exact; the division by 2 is done inside the       *)
(* square-foot conversion.  Non-finite doubles (NaN, Infinity) are outside  *)
(* the model.                                                               *)
(*                                                                          *)
(* JavaScript values.  A function result is a record: Num(n), Null (the     *)
(* code's null, "unavailable") or Throw (an uncaught TypeError leaving the  *)
(* function).  A point is <<lon, lat>>; Missing is a ring entry that is     *)
(* undefined or null.  A ring is a record: kind "array" with its points,    *)
(* kind "null" (the rings entry is null), or kind "object" (a non-array     *)
(* value without a length).  A geometry is [present, rings]: present is     *)
(* FALSE when the geometry or its rings property is missing.                *)
(***************************************************************************)
EXTENDS Integers, Sequences, FiniteSets, TLC

VARIABLES
    geometry,   \* the argument of the core call under way
    result,     \* what that call returned (Pending before it returns)
    callLog,    \* the calls made so far, as <<argument, result>> pairs
    response,   \* the building-footprint service's answer to one query
    aggregate,  \* what fetchBuildingFootprintArea resolved to
    appState,   \* window.appState.location
    runs,       \* the runGISAnalysis invocations, in call order
    fired       \* number of updateLocation calls so far

vars == <<geometry, result, callLog, response, aggregate, appState, runs, fired>>

----------------------------------------------------------------------------
(* Bounds of the model *)

MaxLon == 2
MaxLat == 2
MaxRingLen == 3
MaxFeatures == 3
MaxCalls == 3
MaxRuns == 2

----------------------------------------------------------------------------
(* JavaScript values *)

Null == [kind |-> "null"]
Throw == [kind |-> "throw"]
Pending == [kind |-> "pending"]
Num(n) == [kind |-> "num", v |-> n]
IsNum(r) == r.kind = "num"

Missing == <<>>
Arr(pts) == [kind |-> "array", pts |-> pts]
NullRing == [kind |-> "null", pts |-> <<>>]
ObjectRing == [kind |-> "object", pts |-> <<>>]
Geom(rings) == [present |-> TRUE, rings |-> rings]
NoGeometry == [present |-> FALSE, rings |-> <<>>]

Abs(n) == IF n < 0 THEN -n ELSE n

\* Math.round on a non-negative rational num/den: floor(num/den + 1/2).
MathRound(num, den) == (2 * num + den) \div (2 * den)

----------------------------------------------------------------------------
(* The core: calculatePolygonAreaSqFt and its helpers *)

\* x = R * lon * PI / 180: linear in the longitude; XStep decimetres of
\* easting per grid step.
XStep == 4

\* y = R * ln(tan(PI/4 + lat/2)): strictly increasing and, north of the
\* equator, convex in the latitude; in decimetres, per latitude index. The
\* table keeps what the area depends on: the northing is monotone and not
\* linear, so points on one line in lon/lat need not stay on one line.
MercatorNorthing == <<0, 4, 9, 15, 22, 30>>

lonLatToMercator(lon, lat) == <<XStep * lon, MercatorNorthing[lat + 1]>>

\* prev[0] * curr[1] - curr[0] * prev[1]
Cross(prev, curr) == prev[1] * curr[2] - curr[1] * prev[2]

\* Reading ring[i][0] throws when ring[i] is undefined or null.
HasMissing(pts) == \E i \in 1..Len(pts) : pts[i] = Missing

Proj(p) == lonLatToMercator(p[1], p[2])

RECURSIVE ShoelaceFrom(_, _)
\* The loop of ringAreaMeters2 from index i (1-based) on: the sum of the
\* cross products of consecutive projected points.
ShoelaceFrom(pts, i) ==
    IF i > Len(pts) THEN 0
    ELSE Cross(Proj(pts[i - 1]), Proj(pts[i])) + ShoelaceFrom(pts, i + 1)

\* Mutant: the length test of the guard dropped.
RingTooShort_NoLengthTest(ring) == ring.kind # "array"

\* The guard as the code writes it.
RingTooShort(ring) == ring.kind # "array" \/ Len(ring.pts) < 3

\* Mutant: the closing term (last point back to the first) left out.
ringAreaMeters2_NoClosingTerm(ring) ==
    IF RingTooShort(ring) THEN Num(0)
    ELSE IF Len(ring.pts) = 0 \/ HasMissing(ring.pts) THEN Throw
    ELSE Num(Abs(ShoelaceFrom(ring.pts, 2)))

\* Doubled magnitude, in square decimetres.
ringAreaMeters2(ring) ==
    IF RingTooShort(ring) THEN Num(0)
    ELSE IF Len(ring.pts) = 0 \/ HasMissing(ring.pts) THEN Throw  \* ring[0][0]
    ELSE LET pts == ring.pts
             area == ShoelaceFrom(pts, 2)
                       + Cross(Proj(pts[Len(pts)]), Proj(pts[1]))
         IN  Num(Abs(area))

RECURSIVE SignedSum(_, _)
\* The loop of signedAreaLonLat from index i (1-based) on; j is the index
\* before i, the last one for the first.
SignedSum(pts, i) ==
    IF i > Len(pts) THEN 0
    ELSE LET j == IF i = 1 THEN Len(pts) ELSE i - 1
         IN  (pts[j][1] - pts[i][1]) * (pts[i][2] + pts[j][2])
               + SignedSum(pts, i + 1)

\* Doubled signed area on the raw lon/lat; only its sign is used.
signedAreaLonLat(ring) ==
    IF ring.kind = "null" THEN Throw          \* null.length
    ELSE IF ring.kind = "object" THEN Num(0)  \* i < undefined: no iteration
    ELSE IF HasMissing(ring.pts) THEN Throw
    ELSE Num(SignedSum(ring.pts, 1))

\* One iteration of the loop over geometry.rings: the new running total.
AddRing(total, ring) ==
    LET signed == signedAreaLonLat(ring)
        m2 == IF signed = Throw THEN Throw ELSE ringAreaMeters2(ring)
    IN  IF total = Throw \/ signed = Throw \/ m2 = Throw THEN Throw
        ELSE IF signed.v < 0 THEN Num(total.v - m2.v)
        ELSE Num(total.v + m2.v)

RECURSIVE SumRings(_, _, _)
SumRings(rings, r, total) ==
    IF r > Len(rings) THEN total
    ELSE SumRings(rings, r + 1, AddRing(total, rings[r]))

\* The doubled signed total of all rings, in square decimetres.
totalMeters2(rings) == SumRings(rings, 1, Num(0))

\* 10.76391041671 square feet in a square metre, to two decimals; a doubled
\* square decimetre is 1/200 of a square metre.
meters2ToSqFt == 1076
SqFtDen == 100 * 200

\* Mutant: totalSqFt >= 0 in place of totalSqFt > 0.
RoundPositive_ZeroIsNumber(total2) ==
    IF total2 >= 0 THEN Num(MathRound(total2 * meters2ToSqFt, SqFtDen)) ELSE Null

\* totalSqFt > 0 ? Math.round(totalSqFt) : null
RoundPositive(total2) ==
    IF total2 > 0 THEN Num(MathRound(total2 * meters2ToSqFt, SqFtDen)) ELSE Null

calculatePolygonAreaSqFt(g) ==
    IF ~g.present \/ Len(g.rings) = 0 THEN Null
    ELSE LET total == totalMeters2(g.rings)
         IN  IF total = Throw THEN Throw ELSE RoundPositive(total.v)

----------------------------------------------------------------------------
(* Inputs of the core *)

Lons == 0..MaxLon
Lats == 0..MaxLat
GridPoints == Lons \X Lats

Reverse(s) == [i \in 1..Len(s) |-> s[Len(s) + 1 - i]]
ReverseRing(ring) == Arr(Reverse(ring.pts))
CloseRing(ring) == Arr(Append(ring.pts, ring.pts[1]))

\* The axis-aligned rectangle with corners (x1, y1) and (x2, y2), counter-
\* clockwise (east, north, west, south); its reverse is clockwise, the
\* orientation of an ESRI outer ring.
RectCCW(b) == <<<<b[1], b[3]>>, <<b[2], b[3]>>, <<b[2], b[4]>>, <<b[1], b[4]>>>>
Boxes == {b \in Lons \X Lons \X Lats \X Lats : b[1] < b[2] /\ b[3] < b[4]}
RectRings == {Arr(RectCCW(b)) : b \in Boxes} \cup {Arr(Reverse(RectCCW(b))) : b \in Boxes}

\* The bounding box of a rectangle ring, as <<x1, x2, y1, y2>>.
BoxOf(ring) ==
    CHOOSE b \in Boxes : ring.pts \in {RectCCW(b), Reverse(RectCCW(b))}
BoxInside(h, o) == o[1] <= h[1] /\ h[2] <= o[2] /\ o[3] <= h[3] /\ h[4] <= o[4]
IsCCW(ring) == ring.pts = RectCCW(BoxOf(ring))

Rect(b, ccw) == Arr(IF ccw THEN RectCCW(b) ELSE Reverse(RectCCW(b)))

\* The geometry is a polygon of one ring: any ring of up to MaxRingLen
\* points, or a rectangle.
SoleRingInput(g) ==
    \/ \E k \in 0..MaxRingLen : \E pts \in [1..k -> GridPoints] : g = Geom(<<Arr(pts)>>)
    \/ \E b \in Boxes, ccw \in BOOLEAN : g = Geom(<<Rect(b, ccw)>>)

\* ... of a rectangle and a rectangle inside it, each in either orientation.
HoledInput(g) ==
    \E bo \in Boxes, bh \in Boxes, co \in BOOLEAN, ch \in BOOLEAN :
        BoxInside(bh, bo) /\ g = Geom(<<Rect(bo, co), Rect(bh, ch)>>)

\* ... of a rectangle and a ring of fewer than 3 points, in either order.
ShortRingInput(g) ==
    \E b \in Boxes, ccw \in BOOLEAN, k \in 0..2 : \E pts \in [1..k -> GridPoints] :
        \/ g = Geom(<<Rect(b, ccw), Arr(pts)>>)
        \/ g = Geom(<<Arr(pts), Rect(b, ccw)>>)

CoreInput(g) == SoleRingInput(g) \/ HoledInput(g) \/ ShortRingInput(g)

----------------------------------------------------------------------------
(* The fetch functions, from the service's answer on *)

\* A service answer: ok is FALSE when fetch rejects, the status is not ok or
\* the body is not JSON (each ends in the catch); features is data.features,
\* empty also when the property is missing.
Answer(ok, fs) == [ok |-> ok, features |-> fs]
Feature(g) == [geometry |-> g]
Failed == Answer(FALSE, <<>>)

\* if (area) totalSqFt += area, inside the forEach; a throw leaves the loop.
AddFeature(total, feature) ==
    LET area == calculatePolygonAreaSqFt(feature.geometry)
    IN  IF total = Throw \/ area = Throw THEN Throw
        ELSE IF IsNum(area) /\ area.v # 0 THEN Num(total.v + area.v)
        ELSE total

RECURSIVE SumFeatures(_, _, _)
SumFeatures(fs, i, total) ==
    IF i > Len(fs) THEN total
    ELSE SumFeatures(fs, i + 1, AddFeature(total, fs[i]))

fetchBuildingFootprintArea(ans) ==
    IF ~ans.ok THEN Null
    ELSE IF Len(ans.features) = 0 THEN Null
    ELSE LET totalSqFt == SumFeatures(ans.features, 1, Num(0))
         IN  IF totalSqFt = Throw THEN Null       \* catch (err)
             ELSE IF totalSqFt.v # 0 THEN Num(MathRound(totalSqFt.v, 1))
             ELSE Null

fetchParcelArea(ans) ==
    IF ~ans.ok THEN Null
    ELSE IF Len(ans.features) = 0 THEN Null
    ELSE LET areaSqFt == calculatePolygonAreaSqFt(ans.features[1].geometry)
         IN  IF areaSqFt = Throw THEN Null        \* catch (err)
             ELSE IF IsNum(areaSqFt) /\ areaSqFt.v # 0
                  THEN Num(MathRound(areaSqFt.v, 1))
             ELSE Null

----------------------------------------------------------------------------
(* State *)

InitialLocation ==
    [lat |-> 0, lon |-> 0, parcelSqFt |-> Null, buildingSqFt |-> Null]

\* What every specification starts from, the core's argument aside.
Idle ==
    /\ result = Pending
    /\ callLog = <<>>
    /\ response = Failed
    /\ aggregate = Pending
    /\ appState = InitialLocation
    /\ runs = <<>>
    /\ fired = 0

\* A page that calls the core once, on one geometry.
Init == CoreInput(geometry) /\ Idle

\* Mutant: totalMeters2 kept outside the function, so that a call starts
\* from the total the call before it reached.
CallCore_SharedTotal ==
    /\ result = Pending
    /\ Len(callLog) < MaxCalls
    /\ LET carried == IF callLog = <<>> \/ ~callLog[Len(callLog)][1].present THEN 0
                      ELSE totalMeters2(callLog[Len(callLog)][1].rings).v
           r == IF ~geometry.present \/ Len(geometry.rings) = 0 THEN Null
                ELSE RoundPositive(carried + totalMeters2(geometry.rings).v)
       IN  /\ result' = r
           /\ callLog' = Append(callLog, <<geometry, r>>)
    /\ UNCHANGED <<geometry, response, aggregate, appState, runs, fired>>

\* window.calculatePolygonAreaSqFt(geometry) returns (or throws): only
\* locals are assigned; the call is logged for the claims.
CallCore ==
    /\ result = Pending
    /\ Len(callLog) < MaxCalls
    /\ result' = calculatePolygonAreaSqFt(geometry)
    /\ callLog' = Append(callLog, <<geometry, result'>>)
    /\ UNCHANGED <<geometry, response, aggregate, appState, runs, fired>>

Next == CallCore

Spec == Init /\ [][Next]_vars

----------------------------------------------------------------------------
(* A building-footprint query: SpecAgg *)

Cell == Geom(<<Rect(<<0, 1, 0, 1>>, TRUE)>>)
Lot == Geom(<<Rect(<<0, 2, 0, 2>>, TRUE)>>)
ClockwiseCell == Geom(<<Rect(<<0, 1, 0, 1>>, FALSE)>>)
LotWithHole == Geom(<<Rect(<<0, 2, 0, 2>>, TRUE), Rect(<<0, 1, 0, 1>>, FALSE)>>)
\* Three points on one line in lon/lat, a thin triangle once projected.
Sliver == Geom(<<Arr(<<<<0, 0>>, <<1, 1>>, <<2, 2>>>>)>>)
EmptyRings == Geom(<<>>)
NullRingGeom == Geom(<<NullRing>>)
LotThenNullRing == Geom(<<Rect(<<0, 2, 0, 2>>, TRUE), NullRing>>)
MissingPointGeom == Geom(<<Arr(<<<<0, 0>>, Missing, <<1, 1>>>>)>>)
ObjectRingGeom == Geom(<<ObjectRing>>)

FeaturePool ==
    {Feature(g) : g \in {Cell, Lot, ClockwiseCell, LotWithHole, Sliver, NoGeometry,
                         EmptyRings, NullRingGeom, LotThenNullRing,
                         MissingPointGeom, ObjectRingGeom}}

InitAgg ==
    /\ \/ response = Failed
       \/ \E k \in 0..MaxFeatures : \E fs \in [1..k -> FeaturePool] :
             response = Answer(TRUE, fs)
    /\ aggregate = Pending
    /\ geometry = NoGeometry
    /\ result = Pending
    /\ callLog = <<>>
    /\ appState = InitialLocation
    /\ runs = <<>>
    /\ fired = 0

\* The promise of fetchBuildingFootprintArea resolves.
BuildingAnswered ==
    /\ aggregate = Pending
    /\ aggregate' = fetchBuildingFootprintArea(response)
    /\ UNCHANGED <<geometry, result, callLog, response, appState, runs, fired>>

NextAgg == BuildingAnswered

SpecAgg == InitAgg /\ [][NextAgg]_vars

----------------------------------------------------------------------------
(* Repeated calls of the core beside the rest of the page: SpecPure *)

PurePool == {Cell, Lot, ClockwiseCell, LotWithHole, Sliver, NoGeometry}

\* The positions the geocoder may answer with, as <<lat, lon>>.
Positions == {<<1, 1>>, <<2, 1>>, <<3, 2>>}

InitPure == geometry \in PurePool /\ Idle

\* The page calls the core again, on any geometry.
CallAgain(g) ==
    /\ result # Pending
    /\ Len(callLog) < MaxCalls
    /\ geometry' = g
    /\ result' = Pending
    /\ UNCHANGED <<callLog, response, aggregate, appState, runs, fired>>

\* The first two lines of updateLocation: the process-wide state changes
\* between two calls of the core.
StoreLocation(pos) ==
    /\ <<appState.lat, appState.lon>> # pos
    /\ appState' = [appState EXCEPT !.lat = pos[1], !.lon = pos[2]]
    /\ UNCHANGED <<geometry, result, callLog, response, aggregate, runs, fired>>

NextPure ==
    \/ CallCore
    \/ \E g \in PurePool : CallAgain(g)
    \/ \E pos \in Positions : StoreLocation(pos)

SpecPure == InitPure /\ [][NextPure]_vars

----------------------------------------------------------------------------
(* updateLocation and runGISAnalysis: SpecAsync *)

\* What the two services hold for each position.
ParcelData(pos) ==
    IF pos = <<1, 1>> THEN <<Feature(Lot)>>
    ELSE IF pos = <<3, 2>> THEN <<Feature(LotWithHole)>>
    ELSE <<>>
BuildingData(pos) ==
    IF pos = <<1, 1>> THEN <<Feature(Cell)>>
    ELSE IF pos = <<3, 2>> THEN <<Feature(Cell), Feature(Cell)>>
    ELSE <<>>

\* A fetch is answered with the service's data, or fails.
Answers(fs) == {Answer(TRUE, fs), Failed}

\* One invocation of runGISAnalysis past its guard: the position it read,
\* what its two promises resolved to, and whether each fetch function called
\* the core.
NewRun(lat, lon) ==
    [lat |-> lat, lon |-> lon, parcel |-> Pending, building |-> Pending,
     pCore |-> FALSE, bCore |-> FALSE]

\* runGISAnalysis up to its await: the guard, then both fetch functions are
\* called, each running up to its own await fetch(url).
StartAnalysis(lat, lon) ==
    IF lat = 0 \/ lon = 0 THEN runs ELSE Append(runs, NewRun(lat, lon))

\* Mutant: the continuation runs once either promise has resolved.
AllSettled_Either(run) == run.parcel # Pending \/ run.building # Pending

\* await Promise.all([...]) lets the function continue.
AllSettled(run) == run.parcel # Pending /\ run.building # Pending

\* runGISAnalysis after its await. A promise still pending has handed over
\* no value to store.
StoreResults(st, run) ==
    [st EXCEPT
        !.parcelSqFt = IF run.parcel \notin {Null, Pending} THEN run.parcel ELSE @,
        !.buildingSqFt = IF run.building \notin {Null, Pending} THEN run.building ELSE @]

\* The state after the promise of a fetch function of run i has resolved:
\* runGISAnalysis continues in the same turn when its await lets it.
Continue(i, updated) ==
    /\ runs' = updated
    /\ appState' = IF AllSettled(updated[i]) THEN StoreResults(appState, updated[i])
                   ELSE appState
    /\ UNCHANGED <<geometry, result, callLog, response, aggregate, fired>>

InitAsync == geometry = NoGeometry /\ Idle

updateLocation(lat, lon) ==
    /\ fired < MaxRuns
    /\ fired' = fired + 1
    /\ appState' = [appState EXCEPT !.lat = lat, !.lon = lon]
    /\ runs' = StartAnalysis(lat, lon)
    /\ UNCHANGED <<geometry, result, callLog, response, aggregate>>

\* The parcel service answers run i; fetchParcelArea computes and returns.
ParcelSettled(i, ans) ==
    /\ runs[i].parcel = Pending
    /\ Continue(i, [runs EXCEPT ![i].parcel = fetchParcelArea(ans),
                                ![i].pCore = ans.ok /\ Len(ans.features) > 0])

\* The building service answers run i; fetchBuildingFootprintArea computes
\* and returns.
BuildingSettled(i, ans) ==
    /\ runs[i].building = Pending
    /\ Continue(i, [runs EXCEPT ![i].building = fetchBuildingFootprintArea(ans),
                                ![i].bCore = ans.ok /\ Len(ans.features) > 0])

NextAsync ==
    \/ \E pos \in Positions : updateLocation(pos[1], pos[2])
    \/ \E i \in 1..Len(runs) :
          \E ans \in Answers(ParcelData(<<runs[i].lat, runs[i].lon>>)) :
             ParcelSettled(i, ans)
    \/ \E i \in 1..Len(runs) :
          \E ans \in Answers(BuildingData(<<runs[i].lat, runs[i].lon>>)) :
             BuildingSettled(i, ans)

SpecAsync == InitAsync /\ [][NextAsync]_vars

----------------------------------------------------------------------------
(* Claims about the core, checked under Spec *)

Sign(n) == IF n > 0 THEN 1 ELSE IF n < 0 THEN -1 ELSE 0
Returned == result # Pending
Rings == geometry.rings
WellFormed(ring) == ring.kind = "array" /\ ~HasMissing(ring.pts)
IsShort(ring) == WellFormed(ring) /\ Len(ring.pts) < 3
IsValid(ring) == WellFormed(ring) /\ Len(ring.pts) >= 3
RemoveAt(s, k) == [i \in 1..(Len(s) - 1) |-> IF i < k THEN s[i] ELSE s[i + 1]]
ToSqFt(area2) == MathRound(area2 * meters2ToSqFt, SqFtDen)

\* C1: for a polygon whose only ring has at least 3 points and a non-zero
\* enclosed area, the core returns the ring's area magnitude in square feet,
\* and the same value for the ring with its points in reverse order.
C1_SoleRingEitherOrientation ==
    (Returned /\ Len(Rings) = 1 /\ IsValid(Rings[1])
       /\ ringAreaMeters2(Rings[1]).v # 0)
    => /\ result = Num(ToSqFt(ringAreaMeters2(Rings[1]).v))
       /\ calculatePolygonAreaSqFt(Geom(<<ReverseRing(Rings[1])>>)) = result

\* An outer rectangle with a rectangular hole of the opposite orientation
\* inside it.
OuterWithHole ==
    /\ Len(Rings) = 2
    /\ Rings[1] \in RectRings
    /\ Rings[2] \in RectRings
    /\ BoxInside(BoxOf(Rings[2]), BoxOf(Rings[1]))
    /\ IsCCW(Rings[1]) # IsCCW(Rings[2])

\* C2: for an outer ring with a hole ring of the opposite orientation inside
\* it, the core returns strictly less than for the outer ring alone, and
\* null when the hole is as large as the outer ring.
C2_HoleReducesArea ==
    (Returned /\ OuterWithHole)
    => LET alone == calculatePolygonAreaSqFt(Geom(<<Rings[1]>>))
       IN  IF BoxOf(Rings[2]) = BoxOf(Rings[1]) THEN result = Null
           ELSE IsNum(result) /\ IsNum(alone) /\ result.v < alone.v

\* C4: in a polygon with a valid ring, a further ring of 0, 1 or 2 points
\* adds nothing and raises nothing: the core returns what it returns for the
\* polygon without that ring.
C4_ShortRingContributesZero ==
    Returned
    => \A k \in 1..Len(Rings) :
          (IsShort(Rings[k]) /\ \E j \in 1..Len(Rings) : j # k /\ IsValid(Rings[j]))
          => /\ result # Throw
             /\ result = calculatePolygonAreaSqFt(Geom(RemoveAt(Rings, k)))

C4_Witness ==
    /\ IsNum(result) /\ result.v > 0
    /\ Len(Rings) = 2
    /\ \E k \in 1..2 : IsShort(Rings[k]) /\ Len(Rings[k].pts) = 2
                        /\ Rings[k].pts[1] # Rings[k].pts[2]

\* C6: a signed total that is zero or negative is returned as null, never as
\* a number; a positive total is returned rounded to the nearest whole
\* square foot; a returned number is never negative.
C6_DegenerateIsNull ==
    (Returned /\ geometry.present /\ Len(Rings) > 0 /\ totalMeters2(Rings) # Throw)
    => LET t == totalMeters2(Rings).v
       IN  /\ t <= 0 => result = Null
           /\ t > 0 => /\ IsNum(result)
                       /\ result.v >= 0
                       /\ 2 * Abs(result.v * SqFtDen - t * meters2ToSqFt) <= SqFtDen

C6_Witness ==
    /\ result = Null
    /\ Len(Rings) = 2
    /\ totalMeters2(Rings).v < 0

\* C8: for a ring of at least 3 points, repeating the first point at the end
\* changes neither the orientation sign nor the area magnitude, so the core
\* returns the same for the closed and the unclosed form.
C8_ClosureImplicit ==
    (Returned /\ Len(Rings) = 1 /\ IsValid(Rings[1]))
    => LET ring == Rings[1]
           closed == CloseRing(ring)
       IN  /\ Sign(signedAreaLonLat(closed).v) = Sign(signedAreaLonLat(ring).v)
           /\ ringAreaMeters2(closed) = ringAreaMeters2(ring)
           /\ calculatePolygonAreaSqFt(Geom(<<closed>>)) = result

C8_Witness ==
    /\ IsNum(result) /\ result.v > 0
    /\ Len(Rings) = 1
    /\ Len(Rings[1].pts) >= 3
    /\ Rings[1].pts[1] # Rings[1].pts[Len(Rings[1].pts)]

----------------------------------------------------------------------------
(* Claims about the building-footprint aggregate, checked under SpecAgg *)

Answered == aggregate # Pending /\ response.ok
AreaOf(f) == calculatePolygonAreaSqFt(f.geometry)

\* A geometry with a rings entry that is no array, or a ring with a missing
\* point.
Malformed(g) ==
    g.present /\ \E r \in 1..Len(g.rings) :
                    g.rings[r].kind # "array" \/ HasMissing(g.rings[r].pts)
WellFormedFeature(f) == ~Malformed(f.geometry)

\* C3: a feature with malformed geometry never makes the core throw, and the
\* aggregate is still the one of the remaining, well-formed features.
C3_MalformedFeatureIsolated ==
    (Answered /\ \E i \in 1..Len(response.features) :
                    Malformed(response.features[i].geometry))
    => /\ \A i \in 1..Len(response.features) : AreaOf(response.features[i]) # Throw
       /\ aggregate = fetchBuildingFootprintArea(
                         Answer(TRUE, SelectSeq(response.features, WellFormedFeature)))

RECURSIVE SumOfAreas(_, _)
\* The sum of the areas of the features from index i on, a feature without a
\* number counting as zero.
SumOfAreas(fs, i) ==
    IF i > Len(fs) THEN 0
    ELSE (IF IsNum(AreaOf(fs[i])) THEN AreaOf(fs[i]).v ELSE 0) + SumOfAreas(fs, i + 1)

\* C5: the aggregate is the sum of the core's results over all features, an
\* unavailable feature counting as zero; it is null only when there is no
\* feature or every feature is unavailable.
C5_AggregateIsSum ==
    Answered
    => LET fs == response.features
       IN  IF \A i \in 1..Len(fs) : ~IsNum(AreaOf(fs[i]))
           THEN aggregate = Null
           ELSE aggregate = Num(SumOfAreas(fs, 1))

----------------------------------------------------------------------------
(* Claims about purity, checked under SpecPure *)

\* Equal arguments got equal results, whatever was called or stored between.
SameInputSameResult ==
    \A i, j \in 1..Len(callLog) :
        callLog[i][1] = callLog[j][1] => callLog[i][2] = callLog[j][2]

----------------------------------------------------------------------------
(* Claims about the orchestration, checked under SpecAsync *)

BothAnswered(run) == run.parcel # Pending /\ run.building # Pending

\* C9: the core is invoked for neither feature set while one of the two
\* fetches of the analysis is still pending.
C9_CoreAfterBothFetches ==
    \A i \in 1..Len(runs) : (runs[i].pCore \/ runs[i].bCore) => BothAnswered(runs[i])

\* C9, amended: both fetches of an analysis are issued in one step, and the
\* stored areas change only in a step that answers the last pending fetch of
\* an analysis; the core itself runs inside each fetch function, as soon as
\* that fetch is answered.
C9_StoreAfterBothFetches ==
    [][/\ Len(runs') > Len(runs)
            => runs'[Len(runs')].parcel = Pending /\ runs'[Len(runs')].building = Pending
       /\ (appState'.parcelSqFt # appState.parcelSqFt
             \/ appState'.buildingSqFt # appState.buildingSqFt)
            => \E i \in 1..Len(runs) : ~BothAnswered(runs[i]) /\ BothAnswered(runs'[i])
       /\ \A i \in 1..Len(runs) :
            /\ (runs'[i].pCore /\ ~runs[i].pCore) => runs[i].parcel = Pending
            /\ (runs'[i].bCore /\ ~runs[i].bCore) => runs[i].building = Pending]_vars

C9_Witness ==
    \E i \in 1..Len(runs) :
        /\ BothAnswered(runs[i])
        /\ runs[i].pCore /\ runs[i].bCore
        /\ IsNum(appState.parcelSqFt) /\ appState.parcelSqFt = runs[i].parcel
        /\ IsNum(appState.buildingSqFt) /\ appState.buildingSqFt = runs[i].building

\* What a lookup at the stored position can yield.
ParcelOutcomes == {fetchParcelArea(a) : a \in Answers(ParcelData(<<appState.lat, appState.lon>>))}
BuildingOutcomes ==
    {fetchBuildingFootprintArea(a) : a \in Answers(BuildingData(<<appState.lat, appState.lon>>))}

\* C10: once no analysis is in flight, the stored areas are results for the
\* stored position (null when it has no usable measurement), never the ones
\* of an earlier position.
C10_StoredAreasMatchLocation ==
    (\A i \in 1..Len(runs) : BothAnswered(runs[i]))
    => /\ appState.parcelSqFt \in ParcelOutcomes
       /\ appState.buildingSqFt \in BuildingOutcomes

====
